---- MODULE Spec2Model ----
(***************************************************************************)
(* Model of the per-camera WebRTC session engine of docker-wyze-bridge:    *)
(* WebRtcStream (src/app/wyzebridge/webrtc_stream.py).                     *)
(*                                                                         *)
(* Context 0 is the orchestrator thread that calls the Stream protocol     *)
(* methods one after the other.  Contexts 1..MaxThreads are the loop       *)
(* threads launched by start(); each runs _run_event_loop and, inside its  *)
(* asyncio loop, the coroutine _connect_webrtc, the ICE state handler and  *)
(* the media task.                                                         *)
(*                                                                         *)
(* Atomicity.  A step of a loop thread is one callback of its event loop:  *)
(* the code between two awaits that wait for the network or for a timer    *)
(* (the awaits of close() inside _cleanup are taken as not suspending).    *)
(* A step of a calling thread is the code between two blocking calls       *)
(* (join, time.sleep).  Steps of different threads interleave freely;      *)
(* tasks of one loop interleave only at their awaits.  A new thread        *)
(* publishes its loop as it is started.  Time is not modelled: a join     *)
(* times out exactly when the joined thread cannot end, and a sleep may    *)
(* end at any moment.                                                      *)
(***************************************************************************)
EXTENDS Naturals, FiniteSets

\* Number of loop threads start() may launch in one run of the model.
MaxThreads == 2

\* "Max 10 reconnect attempts".
MaxReconnect == 10

\* "Exponential backoff, max 60s".
MaxDelay == 60

\* Number of lifecycle requests the orchestrator makes in one run.
MaxCalls == 3

\* Runs of _cleanup counted per loop thread; further runs are not told apart.
MaxCleanups == 2

\* Consecutive recv() timeouts of a pump that are told apart.
MaxTimeouts == 2

\* Callback invocations and sent offers counted on the signaling client.
MaxDispatch == 2

\* Calls of close() on the signaling client that are told apart.
MaxCloses == 2

Threads == 1..MaxThreads
Ctx == 0..MaxThreads

VARIABLES
    \* --- WebRtcStream fields (0 stands for None) ---
    state,            \* self.state
    reconnect_count,  \* self._reconnect_count
    stop_event,       \* self._stop_event.is_set()
    loop_thread,      \* self.loop_thread: the thread it references
    loop,             \* self.loop: the thread whose event loop it references
    pc,               \* self.pc: the peer connection (named by its creating thread)
    signaling,        \* self.signaling: the KvsSignalingClient (same naming)
    ffmpeg_process,   \* self.ffmpeg_process: the Popen (same naming)
    video_pipe,       \* self.video_pipe is set (the path is fixed by the uri)
    audio_pipe,       \* self.audio_pipe is set
    video_track,      \* self._video_track
    audio_track,      \* self._audio_track
    \* --- options (fixed for the life of the session) ---
    opt_reconnect,    \* self.options.reconnect
    opt_audio,        \* self.options.audio
    \* --- loop threads ---
    nextTid,          \* the next thread start() will create
    tpc,              \* position of each thread in _connect_webrtc
    loopStop,         \* loop.stop() has been scheduled on the thread's loop
    hpc,              \* the thread's on_ice_state_change task: "none", "pend"
    mpc,              \* position of the thread's _handle_media_tracks task
    media_started,    \* the closure variable _media_started of the attempt
    \* --- the world outside the object ---
    ice,              \* iceConnectionState of each peer connection ("none": not built)
    sigOpen,          \* signaling clients whose websocket is open
    procRunning,      \* ffmpeg subprocesses that are running
    fsVideo,          \* /tmp/<uri>_video.pipe exists
    fsAudio,          \* /tmp/<uri>_audio.pipe exists
    \* --- calls in progress ---
    cpc,              \* per context: where it is inside stop()/_handle_failure()
    delay,            \* per context: the delay of its time.sleep (0: not asleep)
    \* --- credentials (get_kvs_signal) ---
    lookups,          \* calls of api.get_kvs_signal made so far
    signal_data,      \* per thread: the local signal_data (serial of the lookup, 0: none)
    client_creds,     \* per thread: the signal_data its client and connection were built from
    \* --- media pumps ---
    timeouts,         \* per thread: consecutive recv() timeouts of its video pump
    \* --- one KvsSignalingClient (kvs_signaling.py) ---
    ws,               \* self.ws is set
    receive_task,     \* self._receive_task: "none", "running", "done", "cancelled"
    on_answer,        \* self.on_answer is set
    on_ice_candidate, \* self.on_ice_candidate is set
    wsState,          \* the websocket: "none", "open", "closed"
    answers,          \* invocations of on_answer
    candidates,       \* invocations of on_ice_candidate
    offers,           \* SDP_OFFER envelopes put on the websocket
    outcome,          \* how the last call on the client ended: "none", "ok", "raised"
    received,         \* the last inbound message the receive loop took
    closes,           \* calls of close() on the client
    cb_raised,        \* the callback the receive loop awaited last raised
    \* --- the clients of concurrent connection attempts ---
    callbacks,        \* the clients on which on_answer and on_ice_candidate are set
    offered,          \* the clients an SDP offer was sent on
    answered,         \* per client: what became of the answer: "none", "delivered", "dropped"
    \* --- history ---
    preempted,        \* contexts whose backoff sleep has seen a stop() call
    calls,            \* lifecycle requests made so far
    cleanups          \* per thread: complete runs of _cleanup on its loop

sess == <<state, reconnect_count, stop_event, loop_thread, loop, pc, signaling,
          ffmpeg_process, video_pipe, audio_pipe, video_track, audio_track>>
opts == <<opt_reconnect, opt_audio>>
thr  == <<nextTid, tpc, loopStop, hpc, mpc, media_started>>
env  == <<ice, sigOpen, procRunning, fsVideo, fsAudio>>
hist == <<preempted, calls, cleanups>>
cred == <<lookups, signal_data, client_creds>>
sigv == <<ws, receive_task, on_answer, on_ice_candidate, wsState, answers,
          candidates, offers, outcome, received, closes, cb_raised>>
offv == <<callbacks, offered, answered>>
vars == <<sess, opts, thr, env, cpc, delay, hist, cred, timeouts, sigv, offv>>

\* StreamStatus; OFFLINE is declared but never assigned by WebRtcStream.
StreamStatus == {"Offline", "Stopping", "Disabled", "Stopped", "Connecting",
                 "Connected", "Initializing"}

\* A start() that also accepts DISABLED.
StartAllowedMut == {"Stopped", "Initializing", "Disabled"}

\* States start() accepts.
StartAllowed == {"Stopped", "Initializing"}

\* States in which _cleanup leaves self.state alone.
CleanupKeeps == {"Stopped", "Stopping"}

\* A classification that also counts "disconnected" as fatal.
IceFatalMut == {"failed", "closed", "disconnected"}

\* ICE states health_check and on_ice_state_change treat as fatal.
IceFatal == {"failed", "closed"}

\* The peer connections that are open.
pcOpen == {t \in Threads : ice[t] \notin {"none", "closed"}}

\* The thread exists and has not left _run_event_loop.
Alive(t) == tpc[t] \notin {"idle", "done"}

\* The thread is inside loop.run_until_complete: loop.is_running().
Running(t) == Alive(t)

\* The thread's loop is between callbacks: the coroutine is suspended at an
\* await and no callback of the loop is blocking it.
LoopFree(t) == cpc[t] = "idle" /\ tpc[t] \in {"sigconn", "wait"}

\* The loop is free to run its next callback: a loop on which loop.stop() is
\* scheduled runs that before any callback that becomes ready later, and
\* runs nothing after it.
LoopIdle(t) == LoopFree(t) /\ ~loopStop[t]

\* The thread cannot finish within the 5 s of loop_thread.join(timeout=5):
\* it is inside the synchronous get_kvs_signal call, inside a synchronous
\* _handle_failure (its join or its time.sleep), or it waits in the
\* "while not stop_event" loop with neither the event nor loop.stop() pending.
Blocked(t) ==
    \/ tpc[t] = "creds"
    \/ Alive(t) /\ cpc[t] # "idle"
    \/ tpc[t] = "wait" /\ ~stop_event /\ ~loopStop[t]

(***************************************************************************)
(* Inbound signaling messages (kvs_signaling.py)                           *)
(*                                                                         *)
(* A message is described by what each layer of the receive path sees:     *)
(*   env     the websocket frame: "empty" (blank), "bad_utf8" (bytes that  *)
(*           are not UTF-8), "not_json", "not_object" (JSON, not a dict),  *)
(*           "object" (a JSON object)                                      *)
(*   mtype   its messageType ("OTHER": any other value, or none)           *)
(*   payload its messagePayload: "missing" (absent or null), "empty" (""), *)
(*           "string"                                                      *)
(*   b64     the payload as base64: "clean" (alphabet characters only,     *)
(*           correctly padded), "stray" (a correct encoding with           *)
(*           characters outside the alphabet in it), "truncated" (wrong    *)
(*           length or padding)                                            *)
(*   body    the bytes the payload encodes: "not_utf8", "not_json",        *)
(*           "scalar" (JSON, not a dict), "object" (a JSON object)         *)
(***************************************************************************)
EnvelopeKinds == {"empty", "bad_utf8", "not_json", "not_object", "object"}
MessageTypes == {"SDP_ANSWER", "ICE_CANDIDATE", "STATUS_RESPONSE", "OTHER"}
B64Kinds == {"clean", "stray", "truncated"}
BodyKinds == {"not_utf8", "not_json", "scalar", "object"}

Msg(e, k, p, b, d) ==
    [env |-> e, mtype |-> k, payload |-> p, b64 |-> b, body |-> d]

\* The messages the websocket may deliver (fields a layer never reads are
\* fixed).
Messages ==
    {Msg(e, "OTHER", "missing", "clean", "object") :
        e \in EnvelopeKinds \ {"object"}}
    \cup {Msg("object", k, p, "clean", "object") :
        k \in MessageTypes, p \in {"missing", "empty"}}
    \cup {Msg("object", k, "string", b, d) :
        k \in MessageTypes, b \in B64Kinds, d \in BodyKinds}

\* No message taken yet.
NoMessage == Msg("none", "OTHER", "missing", "clean", "object")

InitWith(n) ==
    /\ state = "Stopped"
    /\ reconnect_count = n
    /\ stop_event = FALSE
    /\ loop_thread = 0
    /\ loop = 0
    /\ pc = 0
    /\ signaling = 0
    /\ ffmpeg_process = 0
    /\ video_pipe = FALSE
    /\ audio_pipe = FALSE
    /\ video_track = 0
    /\ audio_track = 0
    /\ opt_reconnect \in BOOLEAN
    /\ opt_audio \in BOOLEAN
    /\ nextTid = 1
    /\ tpc = [t \in Threads |-> "idle"]
    /\ loopStop = [t \in Threads |-> FALSE]
    /\ hpc = [t \in Threads |-> "none"]
    /\ mpc = [t \in Threads |-> "none"]
    /\ media_started = [t \in Threads |-> FALSE]
    /\ ice = [t \in Threads |-> "none"]
    /\ sigOpen = {}
    /\ procRunning = {}
    /\ fsVideo = FALSE
    /\ fsAudio = FALSE
    /\ cpc = [c \in Ctx |-> "idle"]
    /\ delay = [c \in Ctx |-> 0]
    /\ lookups = 0
    /\ signal_data = [t \in Threads |-> 0]
    /\ client_creds = [t \in Threads |-> 0]
    /\ timeouts = [t \in Threads |-> 0]
    /\ ws = FALSE
    /\ receive_task = "none"
    /\ on_answer = FALSE
    /\ on_ice_candidate = FALSE
    /\ wsState = "none"
    /\ answers = 0
    /\ candidates = 0
    /\ offers = 0
    /\ outcome = "none"
    /\ received = NoMessage
    /\ closes = 0
    /\ cb_raised = FALSE
    /\ callbacks = {}
    /\ offered = {}
    /\ answered = [t \in Threads |-> "none"]
    /\ preempted = {}
    /\ calls = 0
    /\ cleanups = [t \in Threads |-> 0]

\* __init__, lines 56-93: the object after construction.
Init == InitWith(0)

(***************************************************************************)
(* start(), stop() and _handle_failure(), shared by every calling context  *)
(***************************************************************************)

\* start(), lines 130-145: rejected outside StartAllowed; otherwise
\* CONNECTING, the stop flag cleared and one new thread launched, which
\* publishes its loop (lines 287-288) and calls get_kvs_signal.
StartBody ==
    IF state \in StartAllowed
    THEN /\ state' = "Connecting"
         /\ stop_event' = FALSE
         /\ loop_thread' = nextTid
         /\ loop' = nextTid
         /\ tpc' = [tpc EXCEPT ![nextTid] = "creds"]
         /\ nextTid' = nextTid + 1
    ELSE UNCHANGED <<state, stop_event, loop_thread, loop, tpc, nextTid>>

\* The model launches at most MaxThreads threads.
CanStart == state \in StartAllowed => nextTid <= MaxThreads

\* stop(), lines 158-163, when the state is not STOPPED: STOPPING, the stop
\* flag, and loop.stop() scheduled on the loop self.loop references if that
\* loop is running.  A stop() call is noted for every context now sleeping
\* in its backoff.
StopBegin ==
    /\ state' = "Stopping"
    /\ stop_event' = TRUE
    /\ loopStop' = IF loop # 0 /\ Running(loop)
                   THEN [loopStop EXCEPT ![loop] = TRUE]
                   ELSE loopStop

\* The contexts asleep in time.sleep(delay) when stop() is called.
Sleepers == {x \in Ctx : cpc[x] = "rec_sleep"}

\* The backoff delay of line 221.
RECURSIVE Pow2(_)
Pow2(n) == IF n = 0 THEN 1 ELSE 2 * Pow2(n - 1)
Min(a, b) == IF a < b THEN a ELSE b
\* A backoff without the cap.
DelayMut(n) == Pow2(n)
Delay(n) == Min(Pow2(n), MaxDelay)

\* A recovery that counts and sleeps whatever options.reconnect says.
RecoverTailAlways(c) ==
    /\ reconnect_count' = reconnect_count + 1
    /\ cpc' = IF reconnect_count + 1 < MaxReconnect
              THEN [cpc EXCEPT ![c] = "rec_sleep"]
              ELSE [cpc EXCEPT ![c] = "idle"]
    /\ delay' = IF reconnect_count + 1 < MaxReconnect
                THEN [delay EXCEPT ![c] = Delay(reconnect_count + 1)]
                ELSE delay

\* _handle_failure(), lines 218-226 after stop(): with reconnect on, the
\* counter is incremented and, below the ceiling, the context sleeps;
\* otherwise the call returns.
RecoverTail(c) ==
    /\ reconnect_count' = IF opt_reconnect THEN reconnect_count + 1
                          ELSE reconnect_count
    /\ cpc' = IF opt_reconnect /\ reconnect_count + 1 < MaxReconnect
              THEN [cpc EXCEPT ![c] = "rec_sleep"]
              ELSE [cpc EXCEPT ![c] = "idle"]
    /\ delay' = IF opt_reconnect /\ reconnect_count + 1 < MaxReconnect
                THEN [delay EXCEPT ![c] = Delay(reconnect_count + 1)]
                ELSE delay

(***************************************************************************)
(* The orchestrator's calls                                                *)
(***************************************************************************)

\* An init() that also clears the stop flag, as start() does.
CallInitClearing ==
    /\ cpc[0] = "idle"
    /\ calls < MaxCalls
    /\ calls' = calls + 1
    /\ state' = "Initializing"
    /\ stop_event' = FALSE
    /\ UNCHANGED <<reconnect_count, loop_thread, loop, pc, signaling,
                   ffmpeg_process, video_pipe, audio_pipe, video_track,
                   audio_track, opts, thr, env, cpc, preempted>>
    /\ UNCHANGED <<delay, cleanups>>
    /\ UNCHANGED <<cred, timeouts, sigv, offv>>

\* init(), lines 114-122.
CallInit ==
    /\ cpc[0] = "idle"
    /\ calls < MaxCalls
    /\ calls' = calls + 1
    /\ state' = "Initializing"
    /\ UNCHANGED <<reconnect_count, stop_event, loop_thread, loop, pc, signaling,
                   ffmpeg_process, video_pipe, audio_pipe, video_track,
                   audio_track, opts, thr, env, cpc, preempted>>
    /\ UNCHANGED <<delay, cleanups>>
    /\ UNCHANGED <<cred, timeouts, sigv, offv>>

\* start(), lines 124-145.
CallStart ==
    /\ cpc[0] = "idle"
    /\ calls < MaxCalls
    /\ calls' = calls + 1
    /\ CanStart
    /\ StartBody
    /\ UNCHANGED <<reconnect_count, pc, signaling, ffmpeg_process, video_pipe,
                   audio_pipe, video_track, audio_track, opts, loopStop, hpc,
                   mpc, media_started, env, cpc, preempted>>
    /\ UNCHANGED <<delay, cleanups>>
    /\ UNCHANGED <<cred, timeouts, sigv, offv>>

\* stop(), lines 147-163: returns at once in STOPPED, else goes on to join.
CallStop ==
    /\ cpc[0] = "idle"
    /\ calls < MaxCalls
    /\ calls' = calls + 1
    /\ preempted' = preempted \cup Sleepers
    /\ IF state = "Stopped"
       THEN UNCHANGED <<state, stop_event, loopStop, cpc>>
       ELSE /\ StopBegin
            /\ cpc' = [cpc EXCEPT ![0] = "join_stop"]
    /\ UNCHANGED <<reconnect_count, loop_thread, loop, pc, signaling,
                   ffmpeg_process, video_pipe, audio_pipe, video_track,
                   audio_track, opts, nextTid, tpc, hpc, mpc, media_started,
                   env>>
    /\ UNCHANGED <<delay, cleanups>>
    /\ UNCHANGED <<cred, timeouts, sigv, offv>>

\* enable(), lines 174-178.
CallEnable ==
    /\ cpc[0] = "idle"
    /\ calls < MaxCalls
    /\ calls' = calls + 1
    /\ state' = IF state = "Disabled" THEN "Stopped" ELSE state
    /\ UNCHANGED <<reconnect_count, stop_event, loop_thread, loop, pc, signaling,
                   ffmpeg_process, video_pipe, audio_pipe, video_track,
                   audio_track, opts, thr, env, cpc, preempted>>
    /\ UNCHANGED <<delay, cleanups>>
    /\ UNCHANGED <<cred, timeouts, sigv, offv>>

\* disable(), lines 180-184: stop(), then DISABLED.
CallDisable ==
    /\ cpc[0] = "idle"
    /\ calls < MaxCalls
    /\ calls' = calls + 1
    /\ preempted' = preempted \cup Sleepers
    /\ IF state = "Stopped"
       THEN /\ state' = "Disabled"
            /\ UNCHANGED <<stop_event, loopStop, cpc>>
       ELSE /\ StopBegin
            /\ cpc' = [cpc EXCEPT ![0] = "join_disable"]
    /\ UNCHANGED <<reconnect_count, loop_thread, loop, pc, signaling,
                   ffmpeg_process, video_pipe, audio_pipe, video_track,
                   audio_track, opts, nextTid, tpc, hpc, mpc, media_started,
                   env>>
    /\ UNCHANGED <<delay, cleanups>>
    /\ UNCHANGED <<cred, timeouts, sigv, offv>>

\* What health_check treats as a fatal failure, lines 195 and 201-203.
HealthFailure ==
    \/ ffmpeg_process # 0 /\ ffmpeg_process \notin procRunning
    \/ pc # 0 /\ ice[pc] \in IceFatal

\* health_check() without the test of line 193: a failure is handled in
\* whatever state the session is in.
CallHealthCheckAnyState ==
    /\ cpc[0] = "idle"
    /\ IF HealthFailure
       THEN /\ StopBegin
            /\ cpc' = [cpc EXCEPT ![0] = "join_recover"]
            /\ preempted' = preempted \cup Sleepers
       ELSE UNCHANGED <<state, stop_event, loopStop, cpc, preempted>>
    /\ UNCHANGED <<reconnect_count, loop_thread, loop, pc, signaling,
                   ffmpeg_process, video_pipe, audio_pipe, video_track,
                   audio_track, opts, nextTid, tpc, hpc, mpc, media_started,
                   env, calls>>
    /\ UNCHANGED <<delay, cleanups>>
    /\ UNCHANGED <<cred, timeouts, sigv, offv>>

\* health_check(), lines 186-213: in CONNECTED with a fatal failure it calls
\* _handle_failure, whose stop() goes on to join; otherwise it only returns
\* the state.
CallHealthCheck ==
    /\ cpc[0] = "idle"
    /\ IF state = "Connected" /\ HealthFailure
       THEN /\ StopBegin
            /\ cpc' = [cpc EXCEPT ![0] = "join_recover"]
            /\ preempted' = preempted \cup Sleepers
       ELSE UNCHANGED <<state, stop_event, loopStop, cpc, preempted>>
    /\ UNCHANGED <<reconnect_count, loop_thread, loop, pc, signaling,
                   ffmpeg_process, video_pipe, audio_pipe, video_track,
                   audio_track, opts, nextTid, tpc, hpc, mpc, media_started,
                   env, calls>>
    /\ UNCHANGED <<delay, cleanups>>
    /\ UNCHANGED <<cred, timeouts, sigv, offv>>

(***************************************************************************)
(* The blocking steps of stop() and _handle_failure() in a context c       *)
(***************************************************************************)

\* join(timeout=5), lines 166-168, has returned: the thread has ended, the
\* 5 s have elapsed, or (RuntimeError, suppressed) the caller is that thread.
Joined(c) ==
    \/ loop_thread = 0
    \/ loop_thread = c
    \/ loop_thread # 0 /\ ~Alive(loop_thread)
    \/ loop_thread # 0 /\ Blocked(loop_thread)

\* stop(), lines 166-172, called by the orchestrator's stop().
StopJoin ==
    /\ cpc[0] = "join_stop"
    /\ Joined(0)
    /\ loop_thread' = 0
    /\ state' = "Stopped"
    /\ cpc' = [cpc EXCEPT ![0] = "idle"]
    /\ UNCHANGED <<reconnect_count, stop_event, loop, pc, signaling,
                   ffmpeg_process, video_pipe, audio_pipe, video_track,
                   audio_track, opts, thr, env, preempted, calls>>
    /\ UNCHANGED <<delay, cleanups>>
    /\ UNCHANGED <<cred, timeouts, sigv, offv>>

\* stop(), lines 166-172, then disable(), line 183.
DisableJoin ==
    /\ cpc[0] = "join_disable"
    /\ Joined(0)
    /\ loop_thread' = 0
    /\ state' = "Disabled"
    /\ cpc' = [cpc EXCEPT ![0] = "idle"]
    /\ UNCHANGED <<reconnect_count, stop_event, loop, pc, signaling,
                   ffmpeg_process, video_pipe, audio_pipe, video_track,
                   audio_track, opts, thr, env, preempted, calls>>
    /\ UNCHANGED <<delay, cleanups>>
    /\ UNCHANGED <<cred, timeouts, sigv, offv>>

\* stop(), lines 166-172, then _handle_failure(), lines 218-223.
RecoverJoin(c) ==
    /\ cpc[c] = "join_recover"
    /\ Joined(c)
    /\ loop_thread' = 0
    /\ state' = "Stopped"
    /\ RecoverTail(c)
    /\ UNCHANGED <<stop_event, loop, pc, signaling, ffmpeg_process, video_pipe,
                   audio_pipe, video_track, audio_track, opts, nextTid, tpc,
                   loopStop, hpc, mpc, media_started, env, preempted, calls>>
    /\ UNCHANGED cleanups
    /\ UNCHANGED <<cred, timeouts, sigv, offv>>

\* _handle_failure(), lines 223-224: the sleep ends and start() is called.
RecWake(c) ==
    /\ cpc[c] = "rec_sleep"
    /\ CanStart
    /\ StartBody
    /\ cpc' = [cpc EXCEPT ![c] = "idle"]
    /\ preempted' = preempted \ {c}
    /\ UNCHANGED <<reconnect_count, pc, signaling, ffmpeg_process, video_pipe,
                   audio_pipe, video_track, audio_track, opts, loopStop, hpc,
                   mpc, media_started, env, calls>>
    /\ delay' = [delay EXCEPT ![c] = 0]
    /\ UNCHANGED cleanups
    /\ UNCHANGED <<cred, timeouts, sigv, offv>>

(***************************************************************************)
(* _cleanup, lines 615-650, and the end of a loop thread                   *)
(***************************************************************************)

\* Line 649: the state _cleanup leaves, given the state st it finds.
CleanupState(st) == IF st \in CleanupKeeps THEN st ELSE "Stopped"

\* _cleanup when self.pc is p, the open websockets are sgo and the state is
\* st: the peer connection closes, signaling closes, ffmpeg terminated, the
\* pipes named by the fields removed, the fields cleared, the state settled.
CleanupWith(p, sgo, st) ==
    /\ ice' = IF p # 0 THEN [ice EXCEPT ![p] = "closed"] ELSE ice
    /\ pc' = 0
    /\ sigOpen' = sgo \ {signaling}
    /\ signaling' = 0
    /\ procRunning' = procRunning \ {ffmpeg_process}
    /\ ffmpeg_process' = 0
    /\ fsVideo' = IF video_pipe THEN FALSE ELSE fsVideo
    /\ fsAudio' = IF audio_pipe THEN FALSE ELSE fsAudio
    /\ video_pipe' = FALSE
    /\ audio_pipe' = FALSE
    /\ video_track' = 0
    /\ audio_track' = 0
    /\ state' = CleanupState(st)

\* _cleanup as the object stands.
Cleanup == CleanupWith(pc, sigOpen, state)

\* Lines 295-297: self.loop.close() and self.loop = None, on whatever loop
\* self.loop references by now: None raises AttributeError, another thread's
\* running loop raises RuntimeError, and neither reaches the assignment.
LoopAfterClose(t) ==
    IF loop = 0 THEN 0
    ELSE IF loop # t /\ Running(loop) THEN loop
    ELSE 0

\* run_until_complete has returned or raised: the tasks still pending on the
\* loop never run again, and the finally clause of _run_event_loop runs.
ThreadEnds(t) ==
    /\ tpc' = [tpc EXCEPT ![t] = "done"]
    /\ hpc' = [hpc EXCEPT ![t] = "none"]
    /\ mpc' = [mpc EXCEPT ![t] = "none"]
    /\ loopStop' = [loopStop EXCEPT ![t] = FALSE]
    /\ loop' = LoopAfterClose(t)
    /\ timeouts' = [timeouts EXCEPT ![t] = 0]

\* Lines 441-445: an exception inside _connect_webrtc is caught (STOPPED),
\* the finally clause runs _cleanup and the coroutine returns.
Raise(t, p, sgo) ==
    /\ CleanupWith(p, sgo, "Stopped")
    /\ ThreadEnds(t)
    /\ UNCHANGED <<reconnect_count, stop_event, loop_thread, opts, nextTid,
                   media_started, cpc, preempted, calls>>
    /\ cleanups' = [cleanups EXCEPT ![t] = Min(@ + 1, MaxCleanups)]
    /\ UNCHANGED delay
    /\ UNCHANGED <<signal_data, client_creds, sigv, offv>>

(***************************************************************************)
(* A loop thread: the coroutine _connect_webrtc                            *)
(***************************************************************************)

\* A lookup that answers from the result of the previous one, if any.
GetCredsCached(t) ==
    /\ tpc[t] = "creds"
    /\ signaling' = t
    /\ tpc' = [tpc EXCEPT ![t] = "sigconn"]
    /\ UNCHANGED <<state, reconnect_count, stop_event, loop_thread, loop, pc,
                   ffmpeg_process, video_pipe, audio_pipe, video_track,
                   audio_track, opts, nextTid, loopStop, hpc, mpc,
                   media_started, env, cpc, preempted, calls>>
    /\ UNCHANGED <<delay, cleanups>>
    /\ lookups' = IF lookups > 0 THEN lookups ELSE 1
    /\ signal_data' = [signal_data EXCEPT ![t] = lookups']
    /\ UNCHANGED <<client_creds, timeouts, sigv, offv>>

\* Lines 309-322: get_kvs_signal returned "ok"; the signaling client is
\* created and its connect() awaited.
GetCredsOk(t) ==
    /\ tpc[t] = "creds"
    /\ signaling' = t
    /\ tpc' = [tpc EXCEPT ![t] = "sigconn"]
    /\ UNCHANGED <<state, reconnect_count, stop_event, loop_thread, loop, pc,
                   ffmpeg_process, video_pipe, audio_pipe, video_track,
                   audio_track, opts, nextTid, loopStop, hpc, mpc,
                   media_started, env, cpc, preempted, calls>>
    /\ UNCHANGED <<delay, cleanups>>
    /\ lookups' = lookups + 1
    /\ signal_data' = [signal_data EXCEPT ![t] = lookups + 1]
    /\ UNCHANGED <<client_creds, timeouts, sigv, offv>>

\* Lines 309-311: the result is not "ok" and the coroutine raises.
GetCredsFail(t) ==
    /\ tpc[t] = "creds"
    /\ Raise(t, pc, sigOpen)
    /\ lookups' = lookups + 1

\* Lines 322-439: the websocket is open; the peer connection is built, the
\* callbacks are stored on self.signaling, the offer is created and sent on
\* self.signaling, and the coroutine enters its wait loop.
SigConnectOk(t) ==
    /\ tpc[t] = "sigconn"
    /\ LoopIdle(t)
    /\ signaling \in sigOpen \cup {t}
    /\ sigOpen' = sigOpen \cup {t}
    /\ pc' = t
    /\ ice' = [ice EXCEPT ![t] = "new"]
    /\ tpc' = [tpc EXCEPT ![t] = "wait"]
    /\ UNCHANGED <<state, reconnect_count, stop_event, loop_thread, loop,
                   signaling, ffmpeg_process, video_pipe, audio_pipe,
                   video_track, audio_track, opts, nextTid, loopStop, hpc, mpc,
                   media_started, procRunning, fsVideo, fsAudio, cpc,
                   preempted, calls>>
    /\ UNCHANGED <<delay, cleanups>>
    /\ client_creds' = [client_creds EXCEPT ![t] = signal_data[t]]
    /\ UNCHANGED <<lookups, signal_data, timeouts, sigv, offv>>

\* Line 322: websockets.connect raises; no peer connection was built.
SigConnectFail(t) ==
    /\ tpc[t] = "sigconn"
    /\ LoopIdle(t)
    /\ Raise(t, pc, sigOpen)
    /\ UNCHANGED lookups

\* Lines 344-435: the websocket is open and the peer connection built, but
\* line 428 finds self.signaling None, or createOffer, setLocalDescription
\* or send_offer raises; _cleanup closes the connection just built.
SendOfferFail(t) ==
    /\ tpc[t] = "sigconn"
    /\ LoopIdle(t)
    /\ Raise(t, t, sigOpen \cup {t})
    /\ UNCHANGED lookups

\* Lines 438-445: the wait loop sees the stop flag; the finally clause runs
\* _cleanup and the coroutine returns.
WaitWake(t) ==
    /\ tpc[t] = "wait"
    /\ LoopIdle(t)
    /\ stop_event
    /\ Cleanup
    /\ ThreadEnds(t)
    /\ UNCHANGED <<reconnect_count, stop_event, loop_thread, opts, nextTid,
                   media_started, cpc, preempted, calls>>
    /\ cleanups' = [cleanups EXCEPT ![t] = Min(@ + 1, MaxCleanups)]
    /\ UNCHANGED delay
    /\ UNCHANGED <<cred, sigv, offv>>

\* How far the _cleanup of an abandoned coroutine gets.  When the loop is
\* closed its pending task is destroyed and the interpreter closes the
\* coroutine, which runs the finally clause of line 445 with no loop to
\* resume it: _cleanup runs up to its first await that suspends and is
\* dropped there.  Stage 0: dropped inside pc.close() (there is a peer
\* connection); stage 1: pc.close() ran through and signaling.close() waits
\* for the receive task of an open websocket; stage 2: neither close
\* suspends and _cleanup completes.
FinalStages == 0..2
FinalStageOk(k) ==
    IF k = 0 THEN pc # 0
    ELSE IF k = 1 THEN signaling \in sigOpen
    ELSE signaling \notin sigOpen

\* The loop.stop() scheduled by stop() takes effect while the coroutine is
\* suspended: run_until_complete raises RuntimeError, which lines 292-294
\* catch (STOPPED), and line 296 closes the loop.  The coroutine is
\* abandoned where it stands; its _cleanup gets as far as stage k.
LoopStopped(t, k) ==
    /\ loopStop[t]
    /\ LoopFree(t)
    /\ FinalStageOk(k)
    /\ IF k = 2
       THEN CleanupWith(pc, sigOpen, "Stopped")
       ELSE /\ state' = "Stopped"
            /\ ice' = IF k = 1 /\ pc # 0 THEN [ice EXCEPT ![pc] = "closed"]
                      ELSE ice
            /\ pc' = IF k = 1 THEN 0 ELSE pc
            /\ UNCHANGED <<signaling, ffmpeg_process, video_pipe, audio_pipe,
                           video_track, audio_track, sigOpen, procRunning,
                           fsVideo, fsAudio>>
    /\ ThreadEnds(t)
    /\ UNCHANGED <<reconnect_count, stop_event, loop_thread, opts, nextTid,
                   media_started, cpc, preempted, calls>>
    /\ cleanups' = IF k = 2 THEN [cleanups EXCEPT ![t] = Min(@ + 1, MaxCleanups)]
                    ELSE cleanups
    /\ UNCHANGED delay
    /\ UNCHANGED <<cred, sigv, offv>>

(***************************************************************************)
(* Transport events and the handlers registered on the peer connection     *)
(***************************************************************************)

\* The ICE state changes the transport reports for an open connection
\* ("closed" is reported by closing it; "checking", which the handler only
\* logs, is not told apart from "new").
IceNext(cur) ==
    IF cur = "new" THEN {"connected", "failed"}
    ELSE IF cur = "connected" THEN {"disconnected", "failed"}
    ELSE IF cur = "disconnected" THEN {"connected", "failed"}
    ELSE {}

\* The transport of thread t's connection changes its ICE state; the
\* "iceconnectionstatechange" handler is scheduled as a task on t's loop.
IceEvent(t, s) ==
    /\ tpc[t] = "wait"
    /\ LoopIdle(t)
    /\ s \in IceNext(ice[t])
    /\ ice' = [ice EXCEPT ![t] = s]
    /\ hpc' = [hpc EXCEPT ![t] = "pend"]
    /\ UNCHANGED <<sess, opts, nextTid, tpc, loopStop, mpc, media_started,
                   sigOpen, procRunning, fsVideo, fsAudio, cpc, preempted, calls>>
    /\ UNCHANGED <<delay, cleanups>>
    /\ UNCHANGED <<cred, timeouts, sigv, offv>>

\* A handler that sets CONNECTED and leaves the counter alone.
IceHandlerMut(t) ==
    /\ hpc[t] = "pend"
    /\ LoopIdle(t)
    /\ hpc' = [hpc EXCEPT ![t] = "none"]
    /\ IF pc # 0 /\ ice[pc] = "connected"
       THEN /\ state' = "Connected"
            /\ reconnect_count' = reconnect_count
            /\ UNCHANGED <<pc, signaling, ffmpeg_process, video_pipe,
                           audio_pipe, video_track, audio_track, env>>
       ELSE IF pc # 0 /\ ice[pc] \in IceFatal
       THEN /\ Cleanup
            /\ UNCHANGED reconnect_count
       ELSE UNCHANGED <<state, reconnect_count, pc, signaling, ffmpeg_process,
                        video_pipe, audio_pipe, video_track, audio_track, env>>
    /\ UNCHANGED <<stop_event, loop_thread, loop, opts, nextTid, tpc, loopStop,
                   mpc, media_started, cpc, preempted, calls>>
    /\ cleanups' = IF pc # 0 /\ ice[pc] \in IceFatal
                    THEN [cleanups EXCEPT ![t] = Min(@ + 1, MaxCleanups)]
                    ELSE cleanups
    /\ UNCHANGED delay
    /\ UNCHANGED <<cred, timeouts, sigv, offv>>

\* on_ice_state_change, lines 378-395: it reads the state of self.pc;
\* "connected" sets CONNECTED and resets the counter, "failed"/"closed"
\* awaits _cleanup.
IceHandler(t) ==
    /\ hpc[t] = "pend"
    /\ LoopIdle(t)
    /\ hpc' = [hpc EXCEPT ![t] = "none"]
    /\ IF pc # 0 /\ ice[pc] = "connected"
       THEN /\ state' = "Connected"
            /\ reconnect_count' = 0
            /\ UNCHANGED <<pc, signaling, ffmpeg_process, video_pipe,
                           audio_pipe, video_track, audio_track, env>>
       ELSE IF pc # 0 /\ ice[pc] \in IceFatal
       THEN /\ Cleanup
            /\ UNCHANGED reconnect_count
       ELSE UNCHANGED <<state, reconnect_count, pc, signaling, ffmpeg_process,
                        video_pipe, audio_pipe, video_track, audio_track, env>>
    /\ UNCHANGED <<stop_event, loop_thread, loop, opts, nextTid, tpc, loopStop,
                   mpc, media_started, cpc, preempted, calls>>
    /\ cleanups' = IF pc # 0 /\ ice[pc] \in IceFatal
                    THEN [cleanups EXCEPT ![t] = Min(@ + 1, MaxCleanups)]
                    ELSE cleanups
    /\ UNCHANGED delay
    /\ UNCHANGED <<cred, timeouts, sigv, offv>>

\* The required tracks are there, line 364.
TracksReady(v, a) == v # 0 /\ (~opt_audio \/ a # 0)

\* on_track, lines 354-366, for a track of kind k of thread t's connection.
Track(t, k) ==
    /\ tpc[t] = "wait"
    /\ LoopIdle(t)
    /\ t \in pcOpen
    /\ video_track' = IF k = "video" THEN t ELSE video_track
    /\ audio_track' = IF k = "audio" /\ opt_audio THEN t ELSE audio_track
    /\ IF ~media_started[t] /\ TracksReady(video_track', audio_track')
       THEN /\ media_started' = [media_started EXCEPT ![t] = TRUE]
            /\ mpc' = [mpc EXCEPT ![t] = "sched"]
       ELSE UNCHANGED <<media_started, mpc>>
    /\ UNCHANGED <<state, reconnect_count, stop_event, loop_thread, loop, pc,
                   signaling, ffmpeg_process, video_pipe, audio_pipe, opts,
                   nextTid, tpc, loopStop, hpc, env, cpc, preempted, calls>>
    /\ UNCHANGED <<delay, cleanups>>
    /\ UNCHANGED <<cred, timeouts, sigv, offv>>

(***************************************************************************)
(* The media task _handle_media_tracks                                     *)
(***************************************************************************)

\* Lines 455-464: the pipe fields are set and the pipes made (an existing
\* pipe is tolerated).
MakePipes ==
    /\ video_pipe' = TRUE
    /\ audio_pipe' = (audio_pipe \/ (opt_audio /\ audio_track # 0))
    /\ fsVideo' = TRUE
    /\ fsAudio' = (fsAudio \/ audio_pipe')

\* Lines 455-474: pipes, then _start_ffmpeg, then the pumps are gathered.
MediaSetupOk(t) ==
    /\ mpc[t] = "sched"
    /\ LoopIdle(t)
    /\ MakePipes
    /\ ffmpeg_process' = t
    /\ procRunning' = procRunning \cup {t}
    /\ mpc' = [mpc EXCEPT ![t] = "pump"]
    /\ UNCHANGED <<state, reconnect_count, stop_event, loop_thread, loop, pc,
                   signaling, video_track, audio_track, opts, nextTid, tpc,
                   loopStop, hpc, media_started, ice, sigOpen, cpc, preempted, calls>>
    /\ UNCHANGED <<delay, cleanups>>
    /\ UNCHANGED <<cred, timeouts, sigv, offv>>

\* A media task that has started its pumps before _start_ffmpeg raises.
MediaSetupFailPumping(t) ==
    /\ mpc[t] = "sched"
    /\ LoopIdle(t)
    /\ MakePipes
    /\ mpc' = [mpc EXCEPT ![t] = "pump"]
    /\ preempted' = preempted \cup Sleepers
    /\ IF state = "Stopped"
       THEN /\ RecoverTail(t)
            /\ UNCHANGED <<state, stop_event, loopStop>>
       ELSE /\ StopBegin
            /\ cpc' = [cpc EXCEPT ![t] = "join_recover"]
            /\ UNCHANGED <<reconnect_count, delay>>
    /\ UNCHANGED <<loop_thread, loop, pc, signaling, ffmpeg_process,
                   video_track, audio_track, opts, nextTid, tpc, hpc,
                   media_started, ice, sigOpen, procRunning, calls, cleanups>>
    /\ UNCHANGED <<cred, timeouts, sigv, offv>>

\* Lines 455-478 and 217: Popen raises; the except clause calls
\* _handle_failure inside the loop thread, whose stop() returns at once in
\* STOPPED and otherwise goes on to join.
MediaSetupFail(t) ==
    /\ mpc[t] = "sched"
    /\ LoopIdle(t)
    /\ MakePipes
    /\ mpc' = [mpc EXCEPT ![t] = "none"]
    /\ preempted' = preempted \cup Sleepers
    /\ IF state = "Stopped"
       THEN /\ RecoverTail(t)
            /\ UNCHANGED <<state, stop_event, loopStop>>
       ELSE /\ StopBegin
            /\ cpc' = [cpc EXCEPT ![t] = "join_recover"]
            /\ UNCHANGED <<reconnect_count, delay>>
    /\ UNCHANGED <<loop_thread, loop, pc, signaling, ffmpeg_process,
                   video_track, audio_track, opts, nextTid, tpc, hpc,
                   media_started, ice, sigOpen, procRunning, calls, cleanups>>
    /\ UNCHANGED <<cred, timeouts, sigv, offv>>

\* Lines 529 and 549-552: the pumps leave their frame loops when the stop
\* flag is set or the track has gone; gather returns and the task ends.
PumpExit(t) ==
    /\ mpc[t] = "pump"
    /\ LoopIdle(t)
    /\ stop_event \/ video_track \notin pcOpen
    /\ mpc' = [mpc EXCEPT ![t] = "none"]
    /\ UNCHANGED <<sess, opts, nextTid, tpc, loopStop, hpc, media_started, env,
                   cpc, preempted, calls>>
    /\ UNCHANGED <<delay, cleanups>>
    /\ timeouts' = [timeouts EXCEPT ![t] = 0]
    /\ UNCHANGED <<cred, sigv, offv>>

\* Lines 531 and 546-548: wait_for(track.recv(), timeout=5.0) of the frame
\* loop times out; the handler logs and continues with the next iteration.
FrameTimeout(t) ==
    /\ mpc[t] = "pump"
    /\ LoopIdle(t)
    /\ ~stop_event
    /\ video_track \in pcOpen
    /\ timeouts[t] < MaxTimeouts
    /\ timeouts' = [timeouts EXCEPT ![t] = @ + 1]
    /\ UNCHANGED <<sess, opts, thr, env, cpc, delay, hist, cred, sigv, offv>>

\* Lines 531-545: a frame arrives after timeouts and is encoded and written.
FrameArrives(t) ==
    /\ mpc[t] = "pump"
    /\ LoopIdle(t)
    /\ ~stop_event
    /\ video_track \in pcOpen
    /\ timeouts[t] > 0
    /\ timeouts' = [timeouts EXCEPT ![t] = 0]
    /\ UNCHANGED <<sess, opts, thr, env, cpc, delay, hist, cred, sigv, offv>>

\* The remux subprocess self.ffmpeg_process refers to exits on its own.
FfmpegExit ==
    /\ ffmpeg_process \in procRunning
    /\ procRunning' = procRunning \ {ffmpeg_process}
    /\ UNCHANGED <<sess, opts, thr, ice, sigOpen, fsVideo, fsAudio, cpc,
                   preempted, calls>>
    /\ UNCHANGED <<delay, cleanups>>
    /\ UNCHANGED <<cred, timeouts, sigv, offv>>

(***************************************************************************)
(* The signaling client: KvsSignalingClient (kvs_signaling.py)             *)
(*                                                                         *)
(* One client object, as _connect_webrtc builds one for each attempt: it   *)
(* is connected once, its callbacks are stored after connect() returned,   *)
(* and _cleanup closes it and drops the reference.                         *)
(***************************************************************************)

sessv == <<sess, opts, thr, env, cpc, delay, hist, cred, timeouts, offv>>

\* Lines 57-70: websockets.connect succeeds; the receive task is created.
ConnectOk ==
    /\ ~ws /\ wsState = "none" /\ closes = 0
    /\ ws' = TRUE
    /\ wsState' = "open"
    /\ receive_task' = "running"
    /\ outcome' = "ok"
    /\ UNCHANGED <<on_answer, on_ice_candidate, answers, candidates, offers,
                   received, closes, sessv,
                   cb_raised>>

\* Lines 66-70: websockets.connect raises out of connect().
ConnectFail ==
    /\ ~ws /\ wsState = "none" /\ closes = 0
    /\ outcome' = "raised"
    /\ UNCHANGED <<ws, receive_task, on_answer, on_ice_candidate, wsState,
                   answers, candidates, offers, received, closes, sessv,
                   cb_raised>>

\* webrtc_stream.py lines 428-429: the owner stores both callbacks.
Register ==
    /\ ws /\ ~on_answer
    /\ on_answer' = TRUE
    /\ on_ice_candidate' = TRUE
    /\ UNCHANGED <<ws, receive_task, wsState, answers, candidates, offers,
                   outcome, received, closes, sessv,
                   cb_raised>>

\* base64.b64decode(payload) of lines 163 and 179, called without
\* validate=True: characters outside the alphabet are discarded before the
\* padding check, so only a wrong length or padding is an error.
B64Decode(m) == IF m.b64 = "truncated" THEN "error" ELSE m.body

\* Lines 163-164 and 179-180: .decode('utf-8') and json.loads of the
\* decoded payload; "error" when one of the three steps raises.
PayloadJson(m) ==
    IF B64Decode(m) \in {"error", "not_utf8", "not_json"} THEN "error"
    ELSE B64Decode(m)

\* _handle_message, lines 146-190, for a frame that parsed to a JSON object:
\* the callback it awaits ("none": no callback).
HandleMessageSwapped(m) ==
    IF m.mtype = "SDP_ANSWER"
    THEN IF on_ice_candidate /\ m.payload = "string" /\ PayloadJson(m) # "error"
         THEN "candidate" ELSE "none"
    ELSE IF m.mtype = "ICE_CANDIDATE"
    THEN IF on_answer /\ m.payload = "string" /\ PayloadJson(m) # "error"
         THEN "answer" ELSE "none"
    ELSE "none"
HandleMessage(m) ==
    IF m.mtype = "SDP_ANSWER"
    THEN IF on_answer /\ m.payload = "string" /\ PayloadJson(m) # "error"
         THEN "answer" ELSE "none"
    ELSE IF m.mtype = "ICE_CANDIDATE"
    THEN IF on_ice_candidate /\ m.payload = "string" /\ PayloadJson(m) # "error"
         THEN "candidate" ELSE "none"
    ELSE "none"

\* One iteration of _receive_loop, lines 117-139: bytes are decoded, a blank
\* frame is skipped, json.loads parses the frame and _handle_message is
\* awaited; every exception of the iteration is caught and logged.
Dispatch(m) == IF m.env = "object" THEN HandleMessage(m) ELSE "none"

\* The same iteration without the handlers of lines 139, 169 and 182: the
\* exception of a callback leaves the loop and ends the receive task.
ReceiveUncaught(m) ==
    /\ receive_task = "running"
    /\ answers < MaxDispatch /\ candidates < MaxDispatch
    /\ received' = m
    /\ answers' = IF Dispatch(m) = "answer" THEN answers + 1 ELSE answers
    /\ candidates' = IF Dispatch(m) = "candidate" THEN candidates + 1
                     ELSE candidates
    /\ \E r \in BOOLEAN :
          /\ cb_raised' = (Dispatch(m) # "none" /\ r)
          /\ receive_task' = IF Dispatch(m) # "none" /\ r THEN "done"
                             ELSE receive_task
    /\ UNCHANGED <<ws, on_answer, on_ice_candidate, wsState, offers, outcome,
                   closes, sessv>>
\* The callback awaited at line 166 or 181 returns or raises; what it raises
\* is caught at line 169 or 182 and logged, and the loop goes on to the next
\* frame.
Receive(m) ==
    /\ receive_task = "running"
    /\ answers < MaxDispatch /\ candidates < MaxDispatch
    /\ received' = m
    /\ answers' = IF Dispatch(m) = "answer" THEN answers + 1 ELSE answers
    /\ candidates' = IF Dispatch(m) = "candidate" THEN candidates + 1
                     ELSE candidates
    /\ \E r \in BOOLEAN : cb_raised' = (Dispatch(m) # "none" /\ r)
    /\ UNCHANGED <<ws, receive_task, on_answer, on_ice_candidate, wsState,
                   offers, outcome, closes, sessv>>

\* send_offer, lines 72-92.
SendOfferUnchecked ==
    /\ offers < MaxDispatch
    /\ offers' = offers + 1
    /\ outcome' = "ok"
    /\ UNCHANGED <<ws, receive_task, on_answer, on_ice_candidate, wsState,
                   answers, candidates, received, closes, sessv,
                   cb_raised>>
SendOffer ==
    /\ offers < MaxDispatch
    /\ IF ws /\ wsState = "open"
       THEN offers' = offers + 1 /\ outcome' = "ok"
       ELSE offers' = offers /\ outcome' = "raised"
    /\ UNCHANGED <<ws, receive_task, on_answer, on_ice_candidate, wsState,
                   answers, candidates, received, closes, sessv,
                   cb_raised>>

\* close, lines 192-204: the receive task is cancelled and awaited (the
\* CancelledError is caught), the websocket closed and self.ws cleared.
CloseNoCancel ==
    /\ ws' = FALSE
    /\ wsState' = IF ws /\ wsState = "open" THEN "closed" ELSE wsState
    /\ receive_task' = receive_task
    /\ closes' = Min(closes + 1, MaxCloses)
    /\ outcome' = "ok"
    /\ UNCHANGED <<on_answer, on_ice_candidate, answers, candidates, offers,
                   received, sessv,
                   cb_raised>>
Close ==
    /\ receive_task' = IF receive_task = "running" THEN "cancelled"
                       ELSE receive_task
    /\ ws' = FALSE
    /\ wsState' = IF ws /\ wsState = "open" THEN "closed" ELSE wsState
    /\ closes' = Min(closes + 1, MaxCloses)
    /\ outcome' = "ok"
    /\ UNCHANGED <<on_answer, on_ice_candidate, answers, candidates, offers,
                   received, sessv,
                   cb_raised>>

\* The server closes the websocket: the async for of line 118 ends (or
\* raises ConnectionClosed, caught at line 141) and the receive task ends.
PeerClose ==
    /\ wsState = "open"
    /\ wsState' = "closed"
    /\ receive_task' = IF receive_task = "running" THEN "done"
                       ELSE receive_task
    /\ UNCHANGED <<ws, on_answer, on_ice_candidate, answers, candidates,
                   offers, outcome, received, closes, sessv,
                   cb_raised>>

NextSig ==
    \/ ConnectOk
    \/ ConnectFail
    \/ Register
    \/ \E m \in Messages : Receive(m)
    \/ SendOffer
    \/ Close
    \/ PeerClose

\* The client on its own, driven by its owner and by the server.
SpecSig == Init /\ [][NextSig]_vars

(***************************************************************************)
(* A connection attempt step by step (_connect_webrtc, lines 317-435)      *)
(*                                                                         *)
(* Every step reads self.signaling afresh.  The client is created by       *)
(* GetCredsOk (line 317); the steps below follow it in program order.      *)
(***************************************************************************)

\* Line 322 to 404: await self.signaling.connect() opens the websocket of the
\* client self.signaling references (its receive loop starts, line 70 of
\* kvs_signaling.py); then the peer connection is built and its handlers
\* are attached.
SignalingConnect(t) ==
    /\ tpc[t] = "sigconn"
    /\ cpc[t] = "idle" /\ ~loopStop[t]
    /\ signaling # 0
    /\ sigOpen' = sigOpen \cup {signaling}
    /\ pc' = t
    /\ ice' = [ice EXCEPT ![t] = "new"]
    /\ tpc' = [tpc EXCEPT ![t] = "built"]
    /\ client_creds' = [client_creds EXCEPT ![t] = signal_data[t]]
    /\ UNCHANGED <<state, reconnect_count, stop_event, loop_thread, loop,
                   signaling, ffmpeg_process, video_pipe, audio_pipe,
                   video_track, audio_track, opts, nextTid, loopStop, hpc, mpc,
                   media_started, procRunning, fsVideo, fsAudio, cpc, delay,
                   hist, lookups, signal_data, timeouts, sigv, offv>>

\* Lines 428-429: self.signaling.on_answer and self.signaling.on_ice_candidate
\* are set on the client self.signaling references; on None the assignment
\* raises AttributeError (lines 441-445).
RegisterCallbacks(t) ==
    /\ tpc[t] = "built"
    /\ cpc[t] = "idle" /\ ~loopStop[t]
    /\ IF signaling # 0
       THEN /\ callbacks' = callbacks \cup {signaling}
            /\ tpc' = [tpc EXCEPT ![t] = "registered"]
            /\ UNCHANGED <<sess, opts, nextTid, loopStop, hpc, mpc,
                           media_started, env, cpc, delay, hist, cred,
                           timeouts, sigv, offered, answered>>
       ELSE /\ Raise(t, pc, sigOpen)
            /\ UNCHANGED lookups

\* Lines 432-435: the offer is created and send_offer is awaited on the
\* client self.signaling references; send_offer raises RuntimeError when
\* that client has no websocket (kvs_signaling.py, lines 79-80) and
\* AttributeError is raised when self.signaling is None.
SendSdpOffer(t) ==
    /\ tpc[t] = "registered"
    /\ cpc[t] = "idle" /\ ~loopStop[t]
    /\ IF signaling \in sigOpen
       THEN /\ offered' = offered \cup {signaling}
            /\ tpc' = [tpc EXCEPT ![t] = "wait"]
            /\ UNCHANGED <<sess, opts, nextTid, loopStop, hpc, mpc,
                           media_started, env, cpc, delay, hist, cred,
                           timeouts, sigv, callbacks, answered>>
       ELSE /\ Raise(t, pc, sigOpen)
            /\ UNCHANGED lookups

\* kvs_signaling.py, lines 156-170: the SDP answer to an offer arrives on the
\* open client c; it is handed to on_answer if the client has the callback
\* and otherwise only logged.
AnswerArrives(c) ==
    /\ c \in offered
    /\ c \in sigOpen
    /\ answered[c] = "none"
    /\ answered' = [answered EXCEPT ![c] = IF c \in callbacks THEN "delivered"
                                                               ELSE "dropped"]
    /\ UNCHANGED <<sess, opts, thr, env, cpc, delay, hist, cred, timeouts,
                   sigv, callbacks, offered>>

NextOffer ==
    \/ CallInit
    \/ CallStart
    \/ \E t \in Threads : GetCredsOk(t)
    \/ \E t \in Threads : SignalingConnect(t)
    \/ \E t \in Threads : RegisterCallbacks(t)
    \/ \E t \in Threads : SendSdpOffer(t)
    \/ \E c \in Threads : AnswerArrives(c)

\* The connection attempts of the session, taken one statement at a time.
SpecOffer == Init /\ [][NextOffer]_vars

(***************************************************************************)
(* The specification                                                       *)
(***************************************************************************)

IceStates == {"connected", "disconnected", "failed"}
TrackKinds == {"video", "audio"}

Next ==
    \/ CallInit
    \/ CallStart
    \/ CallStop
    \/ CallEnable
    \/ CallDisable
    \/ CallHealthCheck
    \/ StopJoin
    \/ DisableJoin
    \/ \E c \in Ctx : RecoverJoin(c)
    \/ \E c \in Ctx : RecWake(c)
    \/ \E t \in Threads : GetCredsOk(t)
    \/ \E t \in Threads : GetCredsFail(t)
    \/ \E t \in Threads : SigConnectOk(t)
    \/ \E t \in Threads : SigConnectFail(t)
    \/ \E t \in Threads : SendOfferFail(t)
    \/ \E t \in Threads : WaitWake(t)
    \/ \E t \in Threads, k \in FinalStages : LoopStopped(t, k)
    \/ \E t \in Threads, s \in IceStates : IceEvent(t, s)
    \/ \E t \in Threads : IceHandler(t)
    \/ \E t \in Threads, k \in TrackKinds : Track(t, k)
    \/ \E t \in Threads : MediaSetupOk(t)
    \/ \E t \in Threads : MediaSetupFail(t)
    \/ \E t \in Threads : PumpExit(t)
    \/ FfmpegExit

Spec == Init /\ [][Next]_vars

\* The types of the variables.
TypeOK ==
    /\ state \in StreamStatus
    /\ reconnect_count \in 0..(MaxReconnect + MaxThreads)
    /\ stop_event \in BOOLEAN
    /\ loop_thread \in Ctx
    /\ loop \in Ctx
    /\ pc \in Ctx
    /\ signaling \in Ctx
    /\ ffmpeg_process \in Ctx
    /\ nextTid \in 1..(MaxThreads + 1)
    /\ sigOpen \subseteq Threads
    /\ procRunning \subseteq Threads
    /\ preempted \subseteq Ctx
    /\ calls \in 0..MaxCalls
    /\ cleanups \in [Threads -> 0..MaxCleanups]
    /\ delay \in [Ctx -> 0..MaxDelay]
    /\ lookups \in 0..MaxThreads
    /\ signal_data \in [Threads -> 0..MaxThreads]
    /\ client_creds \in [Threads -> 0..MaxThreads]
    /\ timeouts \in [Threads -> 0..MaxTimeouts]
    /\ ws \in BOOLEAN
    /\ receive_task \in {"none", "running", "done", "cancelled"}
    /\ wsState \in {"none", "open", "closed"}
    /\ answers \in 0..MaxDispatch
    /\ candidates \in 0..MaxDispatch
    /\ offers \in 0..MaxDispatch
    /\ outcome \in {"none", "ok", "raised"}
    /\ received \in Messages \cup {NoMessage}
    /\ closes \in 0..MaxCloses
    /\ cb_raised \in BOOLEAN
    /\ callbacks \subseteq Threads
    /\ offered \subseteq Threads
    /\ answered \in [Threads -> {"none", "delivered", "dropped"}]

\* The session engine left to itself: the orchestrator starts it and polls
\* health_check, and makes no other request.
NextAuto ==
    \/ CallStart
    \/ CallHealthCheck
    \/ \E c \in Ctx : RecoverJoin(c)
    \/ \E c \in Ctx : RecWake(c)
    \/ \E t \in Threads : GetCredsOk(t)
    \/ \E t \in Threads : GetCredsFail(t)
    \/ \E t \in Threads : SigConnectOk(t)
    \/ \E t \in Threads : SigConnectFail(t)
    \/ \E t \in Threads : SendOfferFail(t)
    \/ \E t \in Threads : WaitWake(t)
    \/ \E t \in Threads, k \in FinalStages : LoopStopped(t, k)
    \/ \E t \in Threads, s \in IceStates : IceEvent(t, s)
    \/ \E t \in Threads : IceHandler(t)
    \/ \E t \in Threads, k \in TrackKinds : Track(t, k)
    \/ \E t \in Threads : MediaSetupOk(t)
    \/ \E t \in Threads : MediaSetupFail(t)
    \/ \E t \in Threads : PumpExit(t)
    \/ FfmpegExit

\* What the scheduling guarantees: a thread that can run does run (a loop
\* runs its ready callbacks, a join or a sleep that can return returns), and
\* the orchestrator keeps polling health_check.
Fairness ==
    /\ WF_vars(CallHealthCheck)
    /\ \A c \in Ctx : WF_vars(RecoverJoin(c)) /\ WF_vars(RecWake(c))
    /\ \A t \in Threads :
         /\ WF_vars(GetCredsOk(t) \/ GetCredsFail(t))
         /\ WF_vars(SigConnectOk(t) \/ SigConnectFail(t) \/ SendOfferFail(t))
         /\ WF_vars(WaitWake(t) \/ \E k \in FinalStages : LoopStopped(t, k))
         /\ WF_vars(IceHandler(t))
         /\ WF_vars(MediaSetupOk(t) \/ MediaSetupFail(t))
         /\ WF_vars(PumpExit(t))

FairSpec == Init /\ [][NextAuto]_vars /\ Fairness

\* The session left to itself, with the frames of the video track arriving
\* or failing to arrive in time.
NextMedia ==
    \/ NextAuto
    \/ \E t \in Threads : FrameTimeout(t)
    \/ \E t \in Threads : FrameArrives(t)

SpecMedia == Init /\ [][NextMedia]_vars

\* The session at rest after n recoveries none of which got as far as
\* CONNECTED: stop() and start() leave the counter alone, so every value
\* below the ceiling is one the counter can hold when a run begins.
InitAfterFailures == \E n \in 0..(MaxReconnect - 1) : InitWith(n)

SpecAfterFailures == InitAfterFailures /\ [][NextAuto]_vars

(***************************************************************************)
(* Properties                                                              *)
(***************************************************************************)

\* C1: the state never changes from Connected directly to Stopped; every
\* path from Connected to Stopped passes through Stopping.
C1_ConnectedToStoppedViaStopping ==
    [][state = "Connected" => state' # "Stopped"]_vars

\* The orchestrator's stop() returns in this step, from line 172.
StopReturns == cpc[0] = "join_stop" /\ cpc'[0] = "idle"

\* C2: once stop() has returned, no execution context of the session is
\* left to write to pipes, transport, signaling or state, and the remux
\* subprocess and the sockets are released.
C2_StopLeavesNothingRunning ==
    [][StopReturns =>
         /\ \A t \in Threads : tpc'[t] \in {"idle", "done"}
         /\ procRunning' = {}
         /\ pcOpen' = {}
         /\ sigOpen' = {}]_vars

\* C3: stop() is idempotent: after every stop() call, the first and the one
\* that finds the session already Stopped, the pipe files are absent, no
\* remux subprocess is running and the peer connection and the signaling
\* socket are closed.
C3_StopIdempotentReleased ==
    [][(StopReturns \/ (CallStop /\ state = "Stopped")) =>
         /\ state' = "Stopped"
         /\ ~fsVideo' /\ ~fsAudio'
         /\ procRunning' = {}
         /\ pcOpen' = {} /\ sigOpen' = {}]_vars

\* C4: in every reachable state there is at most one live peer connection
\* and at most one open signaling channel.
C4_AtMostOneConnection ==
    Cardinality(pcOpen) <= 1 /\ Cardinality(sigOpen) <= 1

\* C5: when ICE goes to failed while the session is Connected and
\* reconnection is enabled, a new attempt is eventually started (the state
\* re-enters Connecting) without any request from outside.
C5_IceFailedLeadsToReconnect ==
    (/\ state = "Connected"
     /\ opt_reconnect
     /\ pc # 0
     /\ ice[pc] = "failed"
     /\ nextTid <= MaxThreads) ~> (state = "Connecting")

\* C6: when the credential lookup is not ok the attempt ends in Stopped, the
\* reconnect counter has been incremented exactly once and no pipe file was
\* created.
C6_CredentialFailureCounted ==
    [][\A t \in Threads :
          (tpc[t] = "creds" /\ tpc'[t] = "done") =>
             /\ state' = "Stopped"
             /\ reconnect_count' = reconnect_count + 1
             /\ (fsVideo' => fsVideo) /\ (fsAudio' => fsAudio)]_vars

\* The session is at rest: no call is in progress and no loop thread is left.
AtRest ==
    /\ \A c \in Ctx : cpc[c] = "idle"
    /\ \A t \in Threads : ~Alive(t)

\* C7: whenever the session is at rest in Stopped or Disabled, neither the
\* video pipe file nor the audio pipe file exists.
C7_NoPipesAtRest ==
    (state \in {"Stopped", "Disabled"} /\ AtRest) => (~fsVideo /\ ~fsAudio)

\* C8: a Disabled session starts no attempt on its own and leaves Disabled
\* for Stopped only by enable(), which launches nothing; enable() changes
\* nothing in any other state.  (init() may re-initialize the session.)
C8_OnlyEnableLeavesDisabled ==
    [][/\ state = "Disabled" =>
            \/ state' = "Disabled" /\ nextTid' = nextTid
            \/ CallInit
            \/ CallEnable /\ state' = "Stopped" /\ nextTid' = nextTid
       /\ (CallEnable /\ state # "Disabled") => UNCHANGED <<sess, thr, env>>]_vars

\* C9: a stop request preempts an in-flight backoff sleep: when the sleep of
\* a recovery that has seen a stop() call ends, start() launches nothing and
\* the session stays Stopped.
C9_StopPreemptsBackoff ==
    [][\A c \in preempted :
          (cpc[c] = "rec_sleep" /\ cpc'[c] # "rec_sleep") =>
             (nextTid' = nextTid /\ state' = "Stopped")]_vars

\* A step in which start() runs: called by the orchestrator or by recovery.
StartStep == CallStart \/ \E c \in Ctx : RecWake(c)

\* The loop threads a step launches.
Launched == {t \in Threads : tpc[t] = "idle" /\ tpc'[t] # "idle"}

\* C10: start() outside Stopped and Initializing changes nothing (state,
\* stop flag, execution contexts); in Stopped or Initializing it sets
\* Connecting, clears the stop flag and launches exactly one new context.
\* No other step launches a context.
C10_StartContract ==
    [][/\ StartStep =>
            IF state \in {"Stopped", "Initializing"}
            THEN /\ state' = "Connecting"
                 /\ ~stop_event'
                 /\ Cardinality(Launched) = 1
                 /\ loop_thread' \in Launched
            ELSE /\ UNCHANGED <<state, stop_event, loop_thread, loop, tpc>>
                 /\ Launched = {}
       /\ Launched # {} => StartStep]_vars

\* start() has been accepted: Connecting, the flag clear, one thread running.
C10_Witness ==
    /\ state = "Connecting"
    /\ ~stop_event
    /\ nextTid = 2
    /\ loop_thread = 1
    /\ tpc[1] = "creds"

\* C11: _cleanup runs exactly once in every connected episode: a loop thread
\* that has built its connection never ends without one complete run, and
\* no loop thread ever completes a second run.
C11_CleanupExactlyOnce ==
    [][\A t \in Threads :
          /\ cleanups'[t] <= 1
          /\ (tpc[t] = "wait" /\ tpc'[t] = "done" => cleanups'[t] = 1)]_vars

\* The media task of thread t starts its pumps: pipes made, ffmpeg launched.
MediaLaunch(t) == mpc[t] = "sched" /\ mpc'[t] = "pump"

\* The episode of thread t has launched its subprocess: it still holds the
\* handle, or a complete _cleanup has dropped it.
HadMedia(t) == media_started[t] /\ (ffmpeg_process = t \/ cleanups[t] > 0)

\* C12: with audio configured, the media start of an episode whose transport
\* is connected and whose two tracks have arrived creates both pipe files
\* and launches exactly one subprocess; once the episode's media has started
\* no further track event schedules it again; and when a following stop()
\* returns, that episode has run _cleanup exactly once, both pipe files are
\* gone and its subprocess is no longer running.
C12_OneMediaStartOneTeardown ==
    [][opt_audio =>
          /\ \A t \in Threads :
                /\ MediaLaunch(t) /\ ice[t] = "connected"
                      /\ video_track = t /\ audio_track = t =>
                      /\ fsVideo' /\ fsAudio'
                      /\ procRunning' \ procRunning = {t}
                /\ media_started[t] /\ mpc[t] # "sched" => mpc'[t] # "sched"
          /\ StopReturns /\ loop_thread # 0 /\ HadMedia(loop_thread) =>
                /\ cleanups'[loop_thread] = 1
                /\ ~fsVideo' /\ ~fsAudio'
                /\ loop_thread \notin procRunning']_vars

\* C13: the step of recovery that increments the counter goes on to the
\* backoff sleep when the new count is below 10 and otherwise returns with
\* the session Stopped and no thread launched; the end of the sleep is a
\* call of start(); and while the counter is at 10 no recovery launches a
\* thread or is still waiting to call start().
C13_CeilingStopsRecovery ==
    [][/\ reconnect_count' = reconnect_count + 1 =>
            IF reconnect_count' < 10
            THEN \E c \in Ctx : cpc[c] # "rec_sleep" /\ cpc'[c] = "rec_sleep"
            ELSE /\ {c \in Ctx : cpc'[c] = "rec_sleep"} \subseteq Sleepers
                 /\ state' = "Stopped"
                 /\ nextTid' = nextTid
       /\ \A c \in Ctx :
             cpc[c] = "rec_sleep" /\ cpc'[c] = "idle" /\ state \in StartAllowed =>
                state' = "Connecting" /\ Launched # {}
       /\ reconnect_count >= 10 /\ Launched # {} => calls' = calls + 1
       /\ reconnect_count' >= 10 => \A c \in Ctx : cpc'[c] # "rec_sleep"]_vars

\* min(2^c, 60) for c = 1..12, written out.
BackoffTable == <<2, 4, 8, 16, 32, 60, 60, 60, 60, 60, 60, 60>>

\* C14: a recovery that goes to sleep with the counter at c sleeps for
\* min(2^c, 60) seconds, and over c = 1..12 the delay of line 221 equals
\* min(2^c, 60), never decreases as c grows and never exceeds 60.
C14_BackoffDelay ==
    [][\A x \in Ctx :
          cpc[x] # "rec_sleep" /\ cpc'[x] = "rec_sleep" =>
             /\ reconnect_count' \in 1..12
             /\ delay'[x] = BackoffTable[reconnect_count']
             /\ \A c \in 1..12 :
                   /\ Delay(c) = BackoffTable[c]
                   /\ Delay(c) <= 60
                   /\ c < 12 => Delay(c) <= Delay(c + 1)]_vars

\* A recovery asleep for the capped delay.
C14_Witness ==
    \E x \in Ctx : cpc[x] = "rec_sleep" /\ reconnect_count >= 6 /\ delay[x] = 60

\* C15: every step that takes the state into Connected leaves the reconnect
\* counter at 0.
C15_ConnectedResetsCounter ==
    [][state # "Connected" /\ state' = "Connected" => reconnect_count' = 0]_vars

\* Connected again through a recovery's restart (one lifecycle request, two
\* threads launched): the counter, incremented by that recovery, is back at 0.
C15_Witness ==
    /\ state = "Connected"
    /\ reconnect_count = 0
    /\ opt_reconnect
    /\ calls = 1
    /\ pc = 2
    /\ ice[2] = "connected"

\* The session is Connected and the transport of self.pc is disconnected.
Disconnected == state = "Connected" /\ pc # 0 /\ ice[pc] = "disconnected"

\* The subprocess self.ffmpeg_process refers to has exited, line 195.
FfmpegDied == ffmpeg_process # 0 /\ ffmpeg_process \notin procRunning

\* C16: while the session is Connected with its transport disconnected (and
\* its subprocess alive), a health_check() call and a run of the ICE handler
\* change nothing: the state stays Connected, nothing is torn down, no stop
\* and no restart begins; and the transport's change to disconnected or back
\* to connected leaves the session's fields alone.
C16_DisconnectedIsTolerated ==
    [][/\ Disconnected /\ ~FfmpegDied
          /\ (CallHealthCheck \/ \E t \in Threads : IceHandler(t)) =>
             /\ state' = "Connected"
             /\ UNCHANGED <<sess, env, cpc, delay, cleanups, nextTid, tpc,
                            loopStop, mpc>>
       /\ state = "Connected" /\ pc # 0 /\ ~FfmpegDied
          /\ (IceEvent(pc, "disconnected") \/ IceEvent(pc, "connected")) =>
             /\ state' = "Connected"
             /\ UNCHANGED <<sess, cpc, delay, cleanups, nextTid, tpc, loopStop,
                            mpc>>]_vars

\* The transport is disconnected, its handler has run, health_check can be
\* called, and the session is still Connected.
C16_Witness ==
    /\ Disconnected
    /\ ~FfmpegDied
    /\ hpc[pc] = "none"
    /\ ffmpeg_process = pc
    /\ \A c \in Ctx : cpc[c] = "idle"

\* Context c is inside stop(), between the write of STOPPING (line 158) and
\* the write of STOPPED (line 171).
InStop(c) == cpc[c] \in {"join_stop", "join_disable", "join_recover"}

\* C17: writes to the state field do not interleave: while a context is
\* inside stop(), between its two writes of the state, the state is written
\* by no step other than that context's own.
C17_StateWritesSerialized ==
    [][\A c \in Ctx :
          InStop(c) /\ state' # state => cpc'[c] # cpc[c]]_vars

\* The threads whose media task is pumping frames into the pipes.
Pumping == {t \in Threads : mpc[t] = "pump"}

\* C18: the pipes and the subprocess belong to one episode at a time: never
\* are two subprocesses alive together, and never are two episodes' pumps
\* writing to the pipes together.
C18_ExclusiveMediaOwnership ==
    /\ Cardinality(procRunning) <= 1
    /\ Cardinality(Pumping) <= 1

\* C19: health_check() called in Connected with the subprocess exited starts
\* recovery: stop() is begun and carried through to Stopped; with reconnect
\* on the counter is incremented, and below the ceiling the call sleeps and
\* then calls start(), after which the session is Connecting.
C19_HealthCheckRecovers ==
    [][/\ CallHealthCheck /\ state = "Connected" /\ FfmpegDied =>
             /\ state' = "Stopping"
             /\ stop_event'
             /\ cpc'[0] = "join_recover"
       /\ cpc[0] = "join_recover" /\ cpc'[0] # "join_recover" /\ FfmpegDied =>
             /\ state' = "Stopped"
             /\ opt_reconnect => reconnect_count' = reconnect_count + 1
             /\ opt_reconnect /\ reconnect_count' < 10 => cpc'[0] = "rec_sleep"
       /\ cpc[0] = "rec_sleep" /\ cpc'[0] = "idle" /\ FfmpegDied =>
             state' = "Connecting"]_vars

\* on_track of thread t creates the task _handle_media_tracks, line 366.
MediaScheduled(t) == mpc[t] # "sched" /\ mpc'[t] = "sched"

\* C20: the media pipeline of an episode starts only when that episode's
\* transport has delivered the required tracks: when on_track starts it, the
\* video track is the episode's own and, with audio configured, so is the
\* audio track.
C20_MediaAfterTracks ==
    [][\A t \in Threads :
          MediaScheduled(t) =>
             /\ video_track' = t
             /\ opt_audio => audio_track' = t]_vars

(***************************************************************************)
(* Inbound signaling                                                       *)
(***************************************************************************)

\* A message the receive path must drop: invalid JSON at the frame layer, or
\* an answer or candidate whose messagePayload is missing, is not valid
\* base64, or does not encode valid JSON.
Malformed(m) ==
    \/ m.env = "not_json"
    \/ /\ m.env = "object"
       /\ m.mtype \in {"SDP_ANSWER", "ICE_CANDIDATE"}
       /\ \/ m.payload = "missing"
          \/ m.payload = "string" /\ (m.b64 # "clean" \/ m.body = "not_json")

\* An answer or a candidate that is valid at every layer.
WellFormed(m) ==
    /\ m.env = "object"
    /\ m.mtype \in {"SDP_ANSWER", "ICE_CANDIDATE"}
    /\ m.payload = "string" /\ m.b64 = "clean" /\ m.body = "object"

\* C21: a malformed inbound signaling message (invalid base64, invalid JSON
\* at the frame or the payload layer, missing messagePayload) is dropped: no
\* callback is invoked and nothing is raised out of the receive loop, which
\* keeps running and still dispatches the messages that follow.
C21_MalformedIsDropped ==
    [][\A m \in Messages : Receive(m) =>
          /\ Malformed(m) => answers' = answers /\ candidates' = candidates
          /\ receive_task' = "running" /\ outcome' = outcome
          /\ Malformed(received) /\ WellFormed(m) /\ on_answer
                => answers' + candidates' = answers + candidates + 1]_vars

\* C22: inbound messages are dispatched by messageType: an SDP_ANSWER
\* invokes the registered answer callback, an ICE_CANDIDATE the registered
\* candidate callback; a STATUS_RESPONSE or an unrecognized type invokes
\* neither and leaves the channel open.
C22_DispatchByType ==
    [][\A m \in Messages : Receive(m) =>
          /\ WellFormed(m) /\ m.mtype = "SDP_ANSWER" /\ on_answer
                => answers' = answers + 1 /\ candidates' = candidates
          /\ WellFormed(m) /\ m.mtype = "ICE_CANDIDATE" /\ on_ice_candidate
                => candidates' = candidates + 1 /\ answers' = answers
          /\ m.env = "object" /\ m.mtype \in {"STATUS_RESPONSE", "OTHER"}
                => /\ answers' = answers /\ candidates' = candidates
                   /\ ws' = ws /\ wsState' = wsState
                   /\ receive_task' = "running"]_vars

\* Both callbacks have been invoked once and a STATUS_RESPONSE was taken
\* last, with the channel still open.
C22_Witness ==
    /\ answers = 1 /\ candidates = 1
    /\ received.env = "object" /\ received.mtype = "STATUS_RESPONSE"
    /\ ws /\ wsState = "open" /\ receive_task = "running"

(***************************************************************************)
(* Outbound signaling and close                                            *)
(***************************************************************************)

\* The channel is connected: self.ws is set and the websocket is open.
ChannelConnected == ws /\ wsState = "open"

\* C23: send_offer on a channel that is not connected fails and transmits
\* nothing; on a connected channel it transmits exactly one SDP_OFFER
\* envelope.
C23_SendOfferNeedsChannel ==
    [][/\ offers' # offers => ChannelConnected /\ offers' = offers + 1
       /\ SendOffer =>
            IF ChannelConnected
            THEN offers' = offers + 1 /\ outcome' = "ok"
            ELSE offers' = offers /\ outcome' = "raised"]_vars

\* One offer went out on the connected channel; after close() a further
\* send_offer raised.
C23_Witness == offers = 1 /\ closes = 1 /\ ~ChannelConnected /\ outcome = "raised"

\* C24: close() is idempotent: a second close has no effect and raises
\* nothing.  After the first close no inbound message is dispatched.
C24_CloseIdempotent ==
    [][/\ Close => /\ outcome' = "ok"
                   /\ ~ws' /\ wsState' # "open" /\ receive_task' # "running"
       /\ closes > 0 /\ Close =>
             UNCHANGED <<ws, receive_task, on_answer, on_ice_candidate,
                         wsState, answers, candidates, offers, received>>
       /\ closes > 0 => /\ answers' = answers /\ candidates' = candidates
                        /\ received' = received]_vars

\* The client was connected, dispatched an answer and has been closed twice.
C24_Witness ==
    /\ closes = 2 /\ answers = 1 /\ receive_task = "cancelled"
    /\ wsState = "closed" /\ ~ws /\ outcome = "ok"

(***************************************************************************)
(* Restart, credentials, pumps and the counter                             *)
(***************************************************************************)

\* A restart makes its start() call: the backoff sleep of _handle_failure
\* (line 223) ends and line 224 calls start().
RestartStarts(c) == cpc[c] = "rec_sleep" /\ cpc'[c] = "idle"

\* The threads start() has launched so far.
Started == {t \in Threads : tpc[t] # "idle"}

\* C25: restarting a stream awaits the resource cleanup exactly once and
\* calls start() exactly once, and the state is Stopped when start() is
\* called (so that start() launches a new attempt).
C25_RestartCleansOnceThenStarts ==
    [][\A c \in Ctx : RestartStarts(c) =>
          /\ state = "Stopped"
          /\ \A t \in Started : cleanups[t] = 1
          /\ Cardinality(Launched) = 1]_vars

\* C26: every execution of the connection coroutine performs its own
\* credential lookup before it opens the signaling channel and builds the
\* peer connection, and no attempt uses the credentials of another one.
C26_FreshCredentials ==
    [][\A t \in Threads :
          /\ tpc[t] = "creds" /\ tpc'[t] = "sigconn"
                => lookups' = lookups + 1 /\ signal_data'[t] = lookups'
          /\ tpc[t] = "sigconn" /\ tpc'[t] = "wait"
                => /\ client_creds'[t] = signal_data[t]
                   /\ signal_data[t] # 0
                   /\ \A u \in Threads \ {t} :
                         client_creds'[u] # client_creds'[t]
          /\ pc' = t /\ pc # t => client_creds'[t] # 0]_vars

\* A reconnect attempt has opened its channel and built its connection with
\* credentials of its own, after an earlier attempt had done so.
C26_Witness ==
    /\ reconnect_count > 0 /\ pc = 2 /\ tpc[2] = "wait"
    /\ client_creds[1] # 0 /\ client_creds[2] # 0
    /\ client_creds[1] # client_creds[2]

\* The failure path of a loop thread has begun: _handle_failure has called
\* stop() or has counted the failure.
FailurePathBegun(t) ==
    \/ cpc[t] = "idle" /\ cpc'[t] \in {"join_recover", "rec_sleep"}
    \/ reconnect_count' = reconnect_count + 1

\* C27: a frame receive timeout that persists makes the pump exit and
\* triggers the failure path of a subprocess death; a single elapsed timeout
\* is tolerated and the pump keeps running.
C27_PersistentTimeoutFails ==
    [][\A t \in Threads :
          /\ timeouts[t] = 0 /\ timeouts'[t] = 1
                => mpc'[t] = "pump" /\ state' = state /\ stop_event' = stop_event
          /\ timeouts[t] < MaxTimeouts /\ timeouts'[t] = MaxTimeouts
                => mpc'[t] # "pump" /\ FailurePathBegun(t)]_vars

\* The signaling channel of the current attempt fails: connect() raises, or
\* the offer cannot be sent.
ChannelFails(t) ==
    /\ SigConnectFail(t) \/ SendOfferFail(t)
    /\ loop_thread = t /\ state = "Connecting" /\ ~stop_event

\* C28: a channel failure during a connection attempt is fatal to the
\* attempt and feeds the backoff path of a transport failure: with
\* reconnection enabled the reconnect counter is incremented and a new
\* attempt follows the backoff delay.
C28_ChannelFailureBacksOff ==
    [][\A t \in Threads : ChannelFails(t) =>
          /\ tpc'[t] = "done"
          /\ opt_reconnect => FailurePathBegun(t)]_vars

\* A media pump stops running.
PumpStops(t) == mpc[t] = "pump" /\ mpc'[t] # "pump"

\* C29: on a shutdown by stop(), a running media pump leaves its frame loop
\* and flushes its encoder into its pipe before the pipe is removed.
C29_PumpFlushesOnStop ==
    [][\A t \in Threads :
          cpc[0] = "join_stop" /\ loop_thread = t /\ PumpStops(t)
             => PumpExit(t) /\ fsVideo]_vars

\* C30: the reconnect counter never exceeds the ceiling of 10, whatever
\* failures, start() calls and recoveries occur.
C30_CounterCapped == reconnect_count \in 0..MaxReconnect

(***************************************************************************)
(* Frame conditions of the calls, and the episodes of a session            *)
(***************************************************************************)

\* The stop() of a _handle_failure in context c has returned: its join ends,
\* or (called on the loop thread in STOPPED) it returned at once.
RecoverySettles(c) ==
    \/ cpc[c] = "join_recover" /\ cpc'[c] # "join_recover"
    \/ /\ c \in Threads /\ cpc[c] = "idle" /\ state = "Stopped"
       /\ mpc[c] = "sched" /\ mpc'[c] = "none"

\* C31: with reconnection disabled a recovery performs only the stop(): the
\* reconnect counter is unchanged, no backoff sleep begins, start() is not
\* called and the session is left Stopped.
C31_NoReconnectOnlyStops ==
    [][~opt_reconnect =>
          /\ \A c \in Ctx : RecoverySettles(c) =>
                /\ state' = "Stopped"
                /\ reconnect_count' = reconnect_count
                /\ cpc'[c] = "idle" /\ delay' = delay
                /\ Launched = {}
          /\ \A c \in Ctx : cpc'[c] # "rec_sleep"]_vars

\* A recovery has run with reconnection disabled, after earlier failures.
C31_Witness ==
    /\ ~opt_reconnect /\ stop_event /\ state = "Stopped"
    /\ reconnect_count > 0 /\ nextTid = 2
    /\ \A c \in Ctx : cpc[c] = "idle"

\* The pumps of thread t start writing.
PumpsStart(t) == mpc[t] # "pump" /\ mpc'[t] = "pump"

\* Thread t's remux subprocess is launched.
FfmpegLaunched(t) == t \in procRunning' \ procRunning

\* C32: the media hand-off is ordered: the pipe files exist when the remux
\* subprocess is launched and the subprocess is launched before a frame is
\* written; no pump writes for an attempt whose subprocess was never
\* launched.
C32_MediaHandOffOrdered ==
    [][\A t \in Threads :
          /\ FfmpegLaunched(t) =>
                /\ video_pipe' /\ fsVideo'
                /\ audio_pipe' => fsAudio'
                /\ ffmpeg_process' = t
          /\ PumpsStart(t) => mpc[t] = "sched" /\ FfmpegLaunched(t)
          /\ FrameArrives(t) => mpc[t] = "pump"
          /\ mpc[t] = "sched" /\ ~FfmpegLaunched(t) => mpc'[t] # "pump"]_vars

\* In a connected episode with audio the pipes exist, the subprocess runs
\* and the pump, started after the launch, has waited once for a frame.
C32_Witness ==
    \E t \in Threads :
       /\ state = "Connected" /\ pc = t /\ opt_audio
       /\ mpc[t] = "pump" /\ timeouts[t] = 1
       /\ ffmpeg_process = t /\ t \in procRunning
       /\ fsVideo /\ fsAudio

\* A failure is raised inside the coroutine _connect_webrtc of thread t.
CoroutineFails(t) == GetCredsFail(t) \/ SigConnectFail(t) \/ SendOfferFail(t)

\* Thread t leaves _run_event_loop.
ContextEnds(t) == tpc[t] # "done" /\ tpc'[t] = "done"

\* Lines 295-297 raise out of _run_event_loop: self.loop is None, or is the
\* running loop of another thread, when the finally clause closes it.
EscapesFinally(t) == loop = 0 \/ (loop # t /\ Running(loop))

\* C33: every failure raised inside a session's coroutine or thread is
\* caught there and turned into a state transition: the thread ends without
\* passing the failure on, the cleanup runs and the session is Stopped.
C33_FailuresContained ==
    [][\A t \in Threads :
          /\ CoroutineFails(t) =>
                /\ ContextEnds(t)
                /\ cleanups'[t] = cleanups[t] + 1
                /\ state' = "Stopped"
          /\ MediaSetupFail(t) => tpc'[t] = tpc[t] /\ mpc'[t] = "none"
          /\ ContextEnds(t) => ~EscapesFinally(t) /\ cleanups'[t] >= 1]_vars

\* C34: init() is a pure metadata transition: from any state it sets the
\* state to Initializing and changes nothing else: no thread is started or
\* stopped, and peer connection, signaling channel, subprocess, pipes, stop
\* flag and reconnect counter are unchanged.
C34_InitOnlySetsState ==
    [][/\ CallInit =>
            /\ state' = "Initializing"
            /\ UNCHANGED <<reconnect_count, stop_event, loop_thread, loop, pc,
                           signaling, ffmpeg_process, video_pipe, audio_pipe,
                           video_track, audio_track, thr, env, cpc, delay,
                           cleanups>>
       /\ state # "Initializing" /\ state' = "Initializing"
            => calls' = calls + 1]_vars

\* init() was called on a connected session: the thread and its connection
\* are as they were.
C34_Witness ==
    /\ state = "Initializing" /\ pc # 0 /\ ice[pc] = "connected"
    /\ tpc[pc] = "wait" /\ calls = MaxCalls

\* A later start() has launched a newer thread while thread t is alive.
Superseded(t) == Alive(t) /\ nextTid > t + 1

\* Thread t exits, or runs a cleanup on its loop.
ExitOrCleanup(t) ==
    \/ CoroutineFails(t)
    \/ WaitWake(t)
    \/ \E k \in FinalStages : LoopStopped(t, k)
    \/ IceHandler(t)

\* C35: a thread superseded by a later start() does not interfere with the
\* new episode: its exit or late cleanup neither overwrites the state of the
\* newer attempt (Connecting, Connected) with Stopped nor closes or removes
\* the peer connection, signaling channel, loop reference, subprocess or
\* pipes the newer thread created.
C35_SupersededDoesNotInterfere ==
    [][\A t \in Threads : Superseded(t) /\ ExitOrCleanup(t) =>
          /\ state \in {"Connecting", "Connected"} => state' # "Stopped"
          /\ pc > t => pc' = pc /\ ice'[pc] = ice[pc]
          /\ signaling > t => signaling' = signaling /\ sigOpen' = sigOpen
          /\ loop > t => loop' = loop
          /\ ffmpeg_process > t =>
                /\ ffmpeg_process' = ffmpeg_process
                /\ procRunning' = procRunning
                /\ fsVideo' = fsVideo /\ fsAudio' = fsAudio]_vars

\* Something that will end thread t is pending: the stop flag its wait loop
\* tests is set, or loop.stop() is scheduled on its loop.
Signalled(t) == stop_event \/ loopStop[t]

\* C36: every thread launched by start() eventually terminates once stop()
\* has been called, even when start() is called again (clearing the stop
\* flag) before the thread has seen the flag, and even after an ICE
\* failed/closed event has run the cleanup inside the thread.  Stated on
\* finite runs: a stop() call leaves every live thread with a pending
\* termination signal, and a live thread never loses its signal.
C36_StopEndsEveryContext ==
    [][\A t \in Threads :
          /\ CallStop /\ Alive(t) => stop_event' \/ loopStop'[t]
          /\ Alive(t) /\ Signalled(t) /\ tpc'[t] \notin {"idle", "done"}
                => stop_event' \/ loopStop'[t]]_vars

\* C37: whenever the state is Connected the session has a live thread that
\* holds an open peer connection: self.pc is set, the connection has not
\* been closed and the thread that built it is running.
C37_ConnectedHasLiveConnection ==
    state = "Connected" => pc # 0 /\ pc \in pcOpen /\ Alive(pc)

\* The value health_check() returns, line 213: the state as the call leaves
\* it.
HealthCheckReturn == state'

\* C38: health_check() called in any state other than Connected is a no-op:
\* whatever the ICE state and the subprocess status are, the call has no
\* outcome other than leaving every field, thread and resource as it was
\* and returning the current state.
C38_HealthCheckOutsideConnectedIsNoOp ==
    state # "Connected" =>
        ~ENABLED (CallHealthCheck /\ (vars' # vars \/ HealthCheckReturn # state))

\* health_check() is callable outside Connected while the subprocess has
\* died and the ICE state of the connection is fatal.
C38_Witness ==
    /\ state \in {"Stopped", "Connecting"}
    /\ cpc[0] = "idle"
    /\ ENABLED CallHealthCheck
    /\ ffmpeg_process # 0 /\ ffmpeg_process \notin procRunning
    /\ pc # 0 /\ ice[pc] \in IceFatal

\* C39: in every connection attempt the answer and candidate callbacks are on
\* the signaling client before the offer is sent on it, so the answer to an
\* offer is always handed to the session and never dropped for lack of a
\* callback.
C39_CallbacksBeforeOffer ==
    [][\A t \in Threads :
          /\ SendSdpOffer(t) /\ signaling \in sigOpen => signaling \in callbacks
          /\ AnswerArrives(t) => answered'[t] = "delivered"]_vars

\* A frame that reaches the answer callback.
AnswerFrame == Msg("object", "SDP_ANSWER", "string", "clean", "object")

\* C40: an exception raised by the answer or candidate callback while a
\* message is handled is caught inside the dispatcher: the step leaves the
\* receive task running and the websocket open and calls no close(), and
\* for as long as the websocket stays open the loop takes and dispatches
\* whatever message comes next.
C40_CallbackErrorsContained ==
    [][/\ \A m \in Messages :
             Receive(m) /\ cb_raised' =>
                 /\ receive_task' = "running"
                 /\ ws' /\ wsState' = "open"
                 /\ closes' = closes
       /\ cb_raised /\ wsState = "open" =>
             /\ receive_task = "running"
             /\ answers < MaxDispatch /\ candidates < MaxDispatch =>
                   \A m \in Messages : ENABLED Receive(m)]_vars

\* A callback has raised, the loop is still running on the open websocket,
\* and the next answer frame will be handed to on_answer.
C40_Witness ==
    /\ cb_raised
    /\ answers = 1
    /\ receive_task = "running"
    /\ ws /\ wsState = "open"
    /\ ENABLED (Receive(AnswerFrame) /\ answers' = answers + 1)

====
